---- MODULE Spec2Model ----
(***************************************************************************)
(* Job tracking of the AlphaFold web application: the sequence validator,  *)
(* the JSON-file job store (queue.json and log.json), the Azure storage    *)
(* adapter and the three request handlers of the sequence controller.      *)
(*                                                                         *)
(* Scheduling.  The server is one Node.js process.  A handler gives up the *)
(* event loop only where it awaits real I/O: axios.post (the predictor)    *)
(* and blobClient.getProperties (the storage existence check).  The store  *)
(* functions and generateSasUrl are async functions whose bodies are       *)
(* synchronous (fs.*Sync, local signing): awaiting them resumes from the   *)
(* microtask queue, which Node drains before it runs the next I/O          *)
(* callback, so no other handler runs in between.  The model keeps one     *)
(* store write per action and lets a handler that is between two such      *)
(* writes (Running) finish before any other handler or the environment     *)
(* moves.                                                                  *)
(*                                                                         *)
(* Outside the model: failures of the file system calls of the job store,  *)
(* and collisions of uuidv4 (ids are issued in sequence).                  *)
(***************************************************************************)
EXTENDS Integers, Sequences, FiniteSets, TLC

VARIABLES
    env,        \* process.env as read at module load: which settings are present
    queue,      \* contents of data/queue.json: a JSON array of JobData
    log,        \* contents of data/log.json: a JSON array of JobData
    blobs,      \* storage names of the blobs that exist in the container
    posted,     \* jobIds for which axios.post to the predictor was issued
    issued,     \* number of ids uuidv4 has produced
    started,    \* number of requests the server has taken up, and of restarts
    clientJobs, \* jobIds that clients received in 200 responses of submit
    now,        \* the last reading of the wall clock (new Date())
    pc,         \* per handler slot: where the handler is
    frame,      \* per handler slot: the handler's local variables
    sent,       \* the response sent by the last step, with the request it answers
    ui,         \* the browser: the state of the App component, its timers and checks
    lookup      \* the last existence check made of a storage adapter, with its result

vars == <<env, queue, log, blobs, posted, issued, started, clientJobs, now,
          pc, frame, sent, ui, lookup>>

----------------------------------------------------------------------------
(* Bounds *)

NumHandlers == 2    \* requests the server can have in flight at once
MaxRequests == 3    \* requests the server takes up, and restarts, in one run
MaxLen      == 2    \* length of the sequences drawn for the validator
MaxTimers   == 3    \* intervals the browser sets up in one run
MaxInFlight == 2    \* status checks the browser has in flight at once

Procs == 1..NumHandlers

\* The ids uuidv4 can hand out in one run.
AllIds == 1..MaxRequests

(* Program constants *)

MinSequenceLength == 10
MaxSequenceLength == 1000
SasValidityHours  == 24

----------------------------------------------------------------------------
(* Values *)

Undefined == <<>>

\* { ...a, ...b }
Spread(a, b) ==
    [k \in (DOMAIN a) \cup (DOMAIN b) |-> IF k \in DOMAIN b THEN b[k] ELSE a[k]]

validAminoAcids ==
    {"A", "C", "D", "E", "F", "G", "H", "I", "K", "L",
     "M", "N", "P", "Q", "R", "S", "T", "V", "W", "Y"}

\* The characters requests are built from: two amino-acid letters in upper
\* and lower case, a letter that is no amino-acid code, a digit, and the
\* long s (U+017F), which is no ASCII letter and whose upper case is S.
Chars == {"A", "c", "B", "1", "U+017F"}

\* String.prototype.toUpperCase on one character.
toUpperCase(ch) ==
    CASE ch = "a" -> "A"
      [] ch = "b" -> "B"
      [] ch = "c" -> "C"
      [] ch = "U+017F" -> "S"
      [] OTHER    -> ch

Sequences == UNION {[1..n -> Chars] : n \in 0..MaxLen}

\* The request bodies of the multi-request specification.
Bodies == {<<>>, <<"A", "c">>, <<"B", "A">>}

\* Mutant: only the emptiness test is left of the validator.
isValidSequence_NoAlphabetTest(sequence) == sequence # <<>>

isValidSequence(sequence) ==
    IF sequence = <<>>
    THEN FALSE
    ELSE \A i \in 1..Len(sequence) : toUpperCase(sequence[i]) \in validAminoAcids

----------------------------------------------------------------------------
(* Storage adapter (Azure) *)

\* The module throws at load unless a connection string or the account name
\* and key are set; a started process has one of the two.  accountKey is
\* "name and key are both set"; where it is FALSE the connection string is.
Envs == [accountKey : BOOLEAN, containerName : BOOLEAN, endpoint : BOOLEAN]

StorageName(jobId) == <<"proteins", jobId, "pdb">>

sasConfigured == env.accountKey

\* date is what new Date() returns at the call.
generateSasUrl(blobName, date) ==
    [blobName |-> blobName, expiresOn |-> date + SasValidityHours]

checkBlobExists(blobName) == blobName \in blobs

\* What can go wrong at the provider when it is asked about an object that
\* may or may not be there: nothing, the container (bucket) is missing, the
\* credentials are refused, the service is unavailable, the connection fails.
Faults == {"none", "noContainer", "forbidden", "unavailable", "network"}

\* The HTTP status of the provider's answer; 0 when there is no answer.
HttpStatus(name, fault) ==
    CASE fault = "none"        -> IF name \in blobs THEN 200 ELSE 404
      [] fault = "noContainer" -> 404
      [] fault = "forbidden"   -> 403
      [] fault = "unavailable" -> 503
      [] OTHER                 -> 0

\* blobClient.getProperties(): resolves, or rejects with a RestError that
\* carries the status code (none for a failed connection).
getProperties(blobName, fault) ==
    IF HttpStatus(blobName, fault) = 200
    THEN [ok |-> TRUE]
    ELSE [ok |-> FALSE, name |-> "RestError", statusCode |-> HttpStatus(blobName, fault)]

\* s3Client.send(HeadObjectCommand): resolves, or rejects with an error
\* named after the status of the body-less answer.
HeadObject(objectKey, fault) ==
    IF HttpStatus(objectKey, fault) = 200
    THEN [ok |-> TRUE]
    ELSE [ok   |-> FALSE,
          name |-> CASE HttpStatus(objectKey, fault) = 404 -> "NotFound"
                     [] HttpStatus(objectKey, fault) = 403 -> "Forbidden"
                     [] HttpStatus(objectKey, fault) = 503 -> "ServiceUnavailable"
                     [] OTHER -> "TimeoutError"]

\* checkBlobExists of blobServices.ts on what getProperties gave: "true",
\* "false", or "throw" for the rethrown error.
checkBlobExistsOn(answer) ==
    IF answer.ok THEN "true"
    ELSE IF answer.statusCode = 404 THEN "false"
    ELSE "throw"

\* Mutant: every rejection is taken for "not found".
checkObjectExistsOn_CatchAll(answer) ==
    IF answer.ok THEN "true" ELSE "false"

\* checkObjectExists of the S3 service on what send gave.
checkObjectExistsOn(answer) ==
    IF answer.ok THEN "true"
    ELSE IF answer.name = "NotFound" THEN "false"
    ELSE "throw"

NoLookup == [adapter |-> "none"]

\* An existence check is made of one of the two adapters.
Exists(adapter, jobId, fault) ==
    /\ lookup' =
          [adapter |-> adapter,
           name    |-> StorageName(jobId),
           fault   |-> fault,
           result  |-> IF adapter = "azure"
                       THEN checkBlobExistsOn(getProperties(StorageName(jobId), fault))
                       ELSE checkObjectExistsOn(HeadObject(StorageName(jobId), fault))]
    /\ UNCHANGED <<ui, env, queue, log, blobs, posted, issued, started, clientJobs, now,
                   pc, frame, sent>>

\* An object is stored in the container.
Stored(jobId) ==
    /\ StorageName(jobId) \notin blobs
    /\ blobs' = blobs \cup {StorageName(jobId)}
    /\ lookup' = NoLookup
    /\ UNCHANGED <<ui, env, queue, log, posted, issued, started, clientJobs, now,
                   pc, frame, sent>>

----------------------------------------------------------------------------
(* Job store *)

RECURSIVE Filter(_, _)
Filter(s, jobId) ==
    IF s = <<>> THEN <<>>
    ELSE IF Head(s).jobId # jobId
         THEN <<Head(s)>> \o Filter(Tail(s), jobId)
         ELSE Filter(Tail(s), jobId)

\* Array.prototype.findIndex, 0 for "not found"
FindIndex(s, jobId) ==
    IF \E i \in 1..Len(s) : s[i].jobId = jobId
    THEN CHOOSE i \in 1..Len(s) :
            /\ s[i].jobId = jobId
            /\ \A k \in 1..(i - 1) : s[k].jobId # jobId
    ELSE 0

addToQueue(queueContent, jd) == Append(queueContent, jd)

\* Mutant: the log file is overwritten with the new record alone.
addToLog_Overwrite(logContent, jd, date) ==
    <<Spread(jd, [processedAt |-> date])>>

addToLog(logContent, jd, date) ==
    Append(logContent, Spread(jd, [processedAt |-> date]))

\* Mutant: the filtered queue is never written back.
removeFromQueue_NoWrite(queueContent, jobId) == queueContent

\* Mutant: an empty queue is written back.
removeFromQueue_Clear(queueContent, jobId) == <<>>

removeFromQueue(queueContent, jobId) == Filter(queueContent, jobId)

\* Array.prototype.find(...) || null
Find(s, jobId) ==
    IF FindIndex(s, jobId) = 0 THEN Undefined ELSE s[FindIndex(s, jobId)]

\* Mutant: the queue is never consulted.
getQueuedJob_Never(jobId) == Undefined

getQueuedJob(jobId) == Find(queue, jobId)

\* Mutant: a job missing from the log is looked up in the queue.
getLoggedJob_QueueToo(jobId) ==
    IF Find(log, jobId) # Undefined THEN Find(log, jobId) ELSE Find(queue, jobId)

getLoggedJob(jobId) == Find(log, jobId)

updateLoggedJob(logContent, jobId, updates) ==
    IF FindIndex(logContent, jobId) = 0
    THEN logContent
    ELSE [logContent EXCEPT ![FindIndex(logContent, jobId)] = Spread(@, updates)]

----------------------------------------------------------------------------
(* Browser client: the App component *)

\* React commits the state updates of one synchronous stretch of code
\* together (automatic batching) and then runs the effects whose
\* dependencies changed; the model takes an update and the effects it sets
\* off as one step.  setInterval hands out ids it never reuses.

\* The job ids the user tracks; 0 stands for the empty string.
TrackedIds == {1, 2}

Checks == 1..MaxInFlight

IdleCheck == [pc |-> "idle"]

\* The component after mounting (lines 13-24); the effects of lines 49-71
\* do nothing while jobId is empty.  seen and tick are observations: the
\* jobs for which a status check has come back completed or error and been
\* dealt with since the user last switched polling on, and the job for
\* which the last step issued a periodic check (0 for none).
InitialApp ==
    [mounted      |-> TRUE,
     jobId        |-> 0,
     isPolling    |-> FALSE,
     pollInterval |-> 0,
     error        |-> FALSE,
     structure    |-> 0,
     timers       |-> {},
     nextTimer    |-> 0,
     checks       |-> [c \in Checks |-> IdleCheck],
     seen         |-> {},
     tick         |-> 0]

clearInterval(timers, id) == {t \in timers : t.id # id}

FreeCheck(u) == \E c \in Checks : u.checks[c].pc = "idle"

\* checkJobStatus(id) is called (lines 92-96): it awaits getJobStatus.  The
\* function instance belongs to a render and sees that render's
\* pollInterval.
StartCheck(u, jobId, closure) ==
    LET c == CHOOSE c \in Checks :
                /\ u.checks[c].pc = "idle"
                /\ \A d \in Checks : d < c => u.checks[d].pc # "idle"
    IN  [u EXCEPT !.checks[c] =
            [pc |-> "awaitStatus", jobId |-> jobId, pollInterval |-> closure]]

\* The effect of lines 56-66 when jobId is set and polling is on.
StartPolling(u) ==
    StartCheck(
        [u EXCEPT !.timers = clearInterval(@, u.pollInterval)
                             \cup {[id           |-> u.nextTimer + 1,
                                    jobId        |-> u.jobId,
                                    pollInterval |-> u.pollInterval]},
                  !.nextTimer = @ + 1,
                  !.pollInterval = u.nextTimer + 1],
        u.jobId, u.pollInterval)

\* Mutant: the effect of lines 56-71 lacks its else branch, so that
\* switching polling off leaves the interval running.
Effects_NoStop(u, s) ==
    LET cleaned == [s EXCEPT !.timers =
                        IF s.pollInterval # u.pollInterval
                        THEN clearInterval(@, u.pollInterval) ELSE @]
    IN  IF s.jobId = u.jobId /\ s.isPolling = u.isPolling THEN cleaned
        ELSE IF s.jobId # 0 /\ s.isPolling THEN StartPolling(cleaned)
        ELSE cleaned

\* The effects that run after a commit that took the state from u to s: the
\* cleanup of lines 49-53 when pollInterval changed, and the effect of
\* lines 56-71 when jobId or isPolling changed.
Effects(u, s) ==
    LET cleaned == [s EXCEPT !.timers =
                        IF s.pollInterval # u.pollInterval
                        THEN clearInterval(@, u.pollInterval) ELSE @]
    IN  IF s.jobId = u.jobId /\ s.isPolling = u.isPolling THEN cleaned
        ELSE IF s.jobId # 0 /\ s.isPolling THEN StartPolling(cleaned)
        ELSE IF ~s.isPolling /\ s.pollInterval # 0
        THEN [cleaned EXCEPT !.timers = clearInterval(@, s.pollInterval),
                             !.pollInterval = 0]
        ELSE cleaned

\* A batch of state setters; an unmounted component ignores them.
SetState(u, updates) ==
    IF u.mounted THEN Effects(u, Spread(u, updates)) ELSE u

\* The commit starts polling, which takes a timer and a check.
StartsPolling(u, updates) ==
    LET s == Spread(u, updates)
    IN  /\ u.mounted
        /\ s.jobId # u.jobId \/ s.isPolling # u.isPolling
        /\ s.jobId # 0 /\ s.isPolling

Server ==
    <<env, queue, log, blobs, posted, issued, started, clientJobs, now, pc, frame, sent,
      lookup>>

\* A step of the browser: the server is not involved.
Browser(u) ==
    /\ ui' = u
    /\ UNCHANGED Server

UserAct(updates) ==
    /\ ui.mounted
    /\ StartsPolling(ui, updates) => (FreeCheck(ui) /\ ui.nextTimer < MaxTimers)
    /\ Browser([SetState(ui, updates) EXCEPT !.tick = 0, !.seen = {}])

\* handleSubmit, lines 167-195: submitSequence has returned jobId, or failed.
HandleSubmit(jobId, ok) ==
    IF ok
    THEN UserAct([error |-> FALSE, structure |-> 0, jobId |-> jobId, isPolling |-> TRUE])
    ELSE /\ ui.mounted
         /\ Browser([ui EXCEPT !.error = TRUE, !.structure = 0, !.tick = 0])

\* handleCheckStatus, lines 198-210, with jobId typed into the input.
HandleCheckStatus(jobId) ==
    /\ jobId # 0
    /\ UserAct([error |-> FALSE, jobId |-> jobId, isPolling |-> TRUE])

\* togglePolling, lines 213-215; the button is rendered when jobId is set.
TogglePolling ==
    /\ ui.jobId # 0
    /\ UserAct([isPolling |-> ~ui.isPolling])

\* The interval callback of lines 60-62 fires.
Tick(id) ==
    /\ \E t \in ui.timers : t.id = id
    /\ FreeCheck(ui)
    /\ LET t == CHOOSE t \in ui.timers : t.id = id
       IN  Browser([StartCheck(ui, t.jobId, t.pollInterval) EXCEPT !.tick = t.jobId])

\* The test of line 105 on a completed status: the structure is fetched from
\* status.storageUrl when it holds, from /api/check-result when it does not.
UsesStorageUrl(status) ==
    /\ "uploaded" \in DOMAIN status
    /\ status.uploaded
    /\ "storageUrl" \in DOMAIN status

\* What getJobStatus of api.ts gives: a thrown error, or the response body.
StatusAnswers ==
    {[ok |-> FALSE]}
        \cup [ok : {TRUE}, status : {"completed"}, uploaded : BOOLEAN]
        \cup [ok : {TRUE}, status : {"processing", "error", "queued"}, uploaded : {FALSE}]

\* The check in slot c is over.
EndCheck(u, c, dealtWith) ==
    [u EXCEPT !.checks[c] = IdleCheck,
              !.tick = 0,
              !.seen = IF dealtWith THEN @ \cup {u.checks[c].jobId} ELSE @]

\* Mutant: the catch block also gives polling up.
StatusReturns_GivesUp(c, answer) ==
    /\ ui.checks[c].pc = "awaitStatus"
    /\ IF ~answer.ok
       THEN Browser(EndCheck(SetState(ui, [error |-> TRUE, isPolling |-> FALSE]), c, FALSE))
       ELSE IF answer.status = "completed"
       THEN Browser([ui EXCEPT !.checks[c].pc = "awaitFetch", !.tick = 0])
       ELSE IF answer.status = "error"
       THEN Browser(EndCheck(SetState(ui, [error |-> TRUE, isPolling |-> FALSE]), c, TRUE))
       ELSE Browser(EndCheck(ui, c, FALSE))

\* Lines 96-99 and 149-164: getJobStatus settles.
StatusReturns(c, answer) ==
    /\ ui.checks[c].pc = "awaitStatus"
    /\ IF ~answer.ok
       THEN Browser(EndCheck(SetState(ui, [error |-> TRUE]), c, FALSE))
       ELSE IF answer.status = "completed"
       THEN Browser([ui EXCEPT !.checks[c].pc = "awaitFetch", !.tick = 0])
       ELSE IF answer.status = "error"
       THEN Browser(EndCheck(SetState(ui, [error |-> TRUE, isPolling |-> FALSE]), c, TRUE))
       ELSE Browser(EndCheck(ui, c, FALSE))

\* Lines 110-118 and 126-134: the fetch of the structure file settles.
FetchReturns(c, ok) ==
    /\ ui.checks[c].pc = "awaitFetch"
    /\ IF ok
       THEN Browser([ui EXCEPT !.checks[c].pc = "awaitText", !.tick = 0])
       ELSE Browser(EndCheck(SetState(ui, [error |-> TRUE]), c, TRUE))

\* Lines 120-148: response.text() settles.
TextReturns(c, ok) ==
    /\ ui.checks[c].pc = "awaitText"
    /\ IF ~ok
       THEN Browser(EndCheck(SetState(ui, [error |-> TRUE]), c, TRUE))
       ELSE Browser(EndCheck(
                SetState([ui EXCEPT !.timers = clearInterval(@, ui.checks[c].pollInterval)],
                         IF ui.checks[c].pollInterval # 0
                         THEN [structure    |-> ui.checks[c].jobId,
                               isPolling    |-> FALSE,
                               pollInterval |-> 0]
                         ELSE [structure    |-> ui.checks[c].jobId,
                               isPolling    |-> FALSE]),
                c, TRUE))

\* The component unmounts: the cleanup of lines 50-52 runs.
Unmount ==
    /\ ui.mounted
    /\ Browser([ui EXCEPT !.mounted = FALSE,
                          !.timers = clearInterval(@, ui.pollInterval),
                          !.tick = 0])

----------------------------------------------------------------------------
(* Scheduling *)

\* Handlers that hold the event loop: between two awaits that resolve from
\* the microtask queue.
Running == {p \in Procs : pc[p] \in {"catch", "addToLog", "removeFromQueue"}}

Quiet == Running = {}

\* sent is an output: it holds a response only in the state that the step
\* sending it leads to, and NoResponse after every other step.
NoResponse == [route |-> "none", code |-> 0, body |-> Undefined]

Init ==
    /\ env \in Envs
    /\ queue = <<>>
    /\ log = <<>>
    /\ blobs = {}
    /\ posted = {}
    /\ issued = 0
    /\ started = 0
    /\ clientJobs = {}
    /\ now = 0
    /\ pc = [p \in Procs |-> "idle"]
    /\ frame = [p \in Procs |-> Undefined]
    /\ sent = NoResponse
    /\ ui = InitialApp
    /\ lookup = NoLookup

\* new Date(): the wall clock is observed only where the code reads it.  A
\* step that reads it gets a time later than the step that read it before (a
\* logical clock), so that a timestamp written a second time shows as a
\* change; the readings within one step coincide.
Dates == {now + 1}

\* A request is taken up on slot p, the lowest free one (the slots are
\* interchangeable).
Begin(p) ==
    /\ pc[p] = "idle"
    /\ \A q \in Procs : q < p => pc[q] # "idle"
    /\ Quiet
    /\ started < MaxRequests
    /\ started' = started + 1

\* The handler awaits; locals is its frame at that point.
Await(p, label, locals) ==
    /\ pc' = [pc EXCEPT ![p] = label]
    /\ frame' = [frame EXCEPT ![p] = locals]
    /\ sent' = NoResponse

\* res.status(code).json(json): the handler is over and its frame is dropped.
Respond(p, request, code, json) ==
    /\ pc' = [pc EXCEPT ![p] = "idle"]
    /\ frame' = [frame EXCEPT ![p] = Undefined]
    /\ sent' = Spread(request, [code |-> code, body |-> json])

----------------------------------------------------------------------------
(* POST /api/submit-sequence *)

uuidv4 == issued + 1

SubmitRequest(sequence) == [route |-> "submit", sequence |-> sequence]

NewJobData(jobId, sequence, date) ==
    [jobId       |-> jobId,
     sequence    |-> sequence,
     status      |-> "queued",
     storageName |-> StorageName(jobId),
     storageUrl  |-> generateSasUrl(StorageName(jobId), date),
     submittedAt |-> date]

\* What the try block does before it awaits axios.post: TRUE when the
\* request goes out, FALSE when a missing setting throws first.
DispatchIssued == env.endpoint /\ env.containerName

\* Mutant: the catch block stores the message and leaves the status.
CaughtJobData_NoStatus(jd) ==
    Spread(jd, [error |-> "Failed to send to AlphaFold VM"])

\* Mutant: the catch block sets the status and forgets the message.
CaughtJobData_NoMessage(jd) == Spread(jd, [status |-> "error"])

CaughtJobData(jd) ==
    Spread(jd, [status |-> "error", error |-> "Failed to send to AlphaFold VM"])

SubmitResponse(jd) ==
    [jobId      |-> jd.jobId,
     storageUrl |-> jd.storageUrl,
     message    |-> "Sequence submitted successfully"]

\* Lines 28-75: validation, id and URL generation, addToQueue, and the
\* start of the predictor call.
SubmitSequence(p, sequence) ==
    /\ Begin(p)
    /\ IF sequence = <<>>
       THEN /\ Respond(p, SubmitRequest(sequence), 400, [error |-> "Sequence is required"])
            /\ UNCHANGED <<queue, posted, issued, now>>
       ELSE IF ~isValidSequence(sequence)
       THEN /\ Respond(p, SubmitRequest(sequence), 400, [error |-> "Invalid protein sequence"])
            /\ UNCHANGED <<queue, posted, issued, now>>
       ELSE /\ issued' = issued + 1
            /\ IF ~sasConfigured
               THEN /\ Respond(p, SubmitRequest(sequence), 500,
                               [error |-> "Server error processing sequence"])
                    /\ UNCHANGED <<queue, posted, now>>
               ELSE \E date \in Dates :
                    /\ now' = date
                    /\ queue' = addToQueue(queue, NewJobData(uuidv4, sequence, date))
                    /\ posted' = IF DispatchIssued THEN posted \cup {uuidv4} ELSE posted
                    /\ Await(p, IF DispatchIssued THEN "awaitPost" ELSE "catch",
                             [sequence |-> sequence,
                              jobData  |-> NewJobData(uuidv4, sequence, date)])
    /\ UNCHANGED <<lookup, ui, env, log, blobs, clientJobs>>

\* axios.post settles: line 77 on success, the catch block on failure.
SubmitPostReturns(p, ok) ==
    /\ pc[p] = "awaitPost"
    /\ Quiet
    /\ IF ok
       THEN Await(p, "addToLog",
                  [frame[p] EXCEPT !.jobData = Spread(@, [status |-> "processing"])])
       ELSE Await(p, "catch", frame[p])
    /\ UNCHANGED <<lookup, ui, env, queue, log, blobs, posted, issued, started, clientJobs, now>>

\* Line 78
SubmitAddToLog(p) ==
    /\ pc[p] = "addToLog"
    /\ \E date \in Dates :
          /\ now' = date
          /\ log' = addToLog(log, frame[p].jobData, date)
    /\ Await(p, "removeFromQueue", frame[p])
    /\ UNCHANGED <<lookup, ui, env, queue, blobs, posted, issued, started, clientJobs>>

\* Lines 79 and 87-91
SubmitRemoveFromQueue(p) ==
    /\ pc[p] = "removeFromQueue"
    /\ queue' = removeFromQueue(queue, frame[p].jobData.jobId)
    /\ Respond(p, SubmitRequest(frame[p].sequence), 200, SubmitResponse(frame[p].jobData))
    /\ clientJobs' = clientJobs \cup {frame[p].jobData.jobId}
    /\ UNCHANGED <<lookup, ui, env, log, blobs, posted, issued, started, now>>

\* Mutant: the catch block sends the request to the predictor once more.
SubmitCatch_Retry(p) ==
    /\ pc[p] = "catch"
    /\ Await(p, "awaitPost", frame[p])
    /\ UNCHANGED <<lookup, ui, env, queue, log, blobs, posted, issued, started, clientJobs, now>>

\* Lines 80-91
SubmitCatch(p) ==
    /\ pc[p] = "catch"
    /\ \E date \in Dates :
          /\ now' = date
          /\ log' = addToLog(log, CaughtJobData(frame[p].jobData), date)
    /\ Respond(p, SubmitRequest(frame[p].sequence), 200, SubmitResponse(frame[p].jobData))
    /\ clientJobs' = clientJobs \cup {frame[p].jobData.jobId}
    /\ UNCHANGED <<lookup, ui, env, queue, blobs, posted, issued, started>>

----------------------------------------------------------------------------
(* GET /api/job-status/:jobId *)

\* The ids a client may ask about: those issued so far, and 0, which uuidv4
\* never produces.
KnownIds == 0..issued

StatusRequest(jobId) == [route |-> "status", jobId |-> jobId]

\* Mutant: storage is never asked; the stored record is returned as it is.
NeedsStorageCheck_Never(lj) == FALSE

NeedsStorageCheck(lj) == lj.status = "processing" \/ lj.status = "completed"

\* Mutant: the stored status is returned instead of the one storage gives.
StatusResponse_StoredStatus(lj, url, blobExists) ==
    Spread(lj, [storageUrl |-> url,
                uploaded   |-> blobExists,
                message    |-> "Job has been processed"])

\* Mutant: the response says completed and leaves uploaded out.
StatusResponse_NoUploaded(lj, url, blobExists) ==
    Spread(lj, [storageUrl |-> url,
                status     |-> IF blobExists THEN "completed" ELSE "processing",
                message    |-> "Job has been processed"])

StatusResponse(lj, url, blobExists) ==
    Spread(lj, [storageUrl |-> url,
                status     |-> IF blobExists THEN "completed" ELSE "processing",
                uploaded   |-> blobExists,
                message    |-> "Job has been processed"])

\* Lines 103-128, up to the await of checkBlobExists
GetJobStatus(p, jobId) ==
    /\ jobId \in KnownIds
    /\ Begin(p)
    /\ IF getQueuedJob(jobId) # Undefined
       THEN /\ Respond(p, StatusRequest(jobId), 200,
                       Spread(getQueuedJob(jobId), [message |-> "Job is queued for processing"]))
            /\ UNCHANGED now
       ELSE IF getLoggedJob(jobId) = Undefined
       THEN /\ Respond(p, StatusRequest(jobId), 404, [error |-> "Job not found"])
            /\ UNCHANGED now
       ELSE IF ~NeedsStorageCheck(getLoggedJob(jobId))
       THEN /\ Respond(p, StatusRequest(jobId), 200,
                       Spread(getLoggedJob(jobId), [message |-> "Job has been processed"]))
            /\ UNCHANGED now
       ELSE IF ~sasConfigured
       THEN /\ Respond(p, StatusRequest(jobId), 500,
                       [error |-> "Server error checking job status"])
            /\ UNCHANGED now
       ELSE \E date \in Dates :
            /\ now' = date
            /\ Await(p, "statusBlob",
                     [jobId      |-> jobId,
                      loggedJob  |-> getLoggedJob(jobId),
                      storageUrl |-> generateSasUrl(getLoggedJob(jobId).storageName, date)])
    /\ UNCHANGED <<lookup, ui, env, queue, log, blobs, posted, issued, clientJobs>>

\* Mutant: the status found in storage is also written to the log.
StatusBlobReturns_Persists(p, answered) ==
    /\ pc[p] = "statusBlob"
    /\ Quiet
    /\ IF answered
       THEN Respond(p, StatusRequest(frame[p].jobId), 200,
                    StatusResponse(frame[p].loggedJob, frame[p].storageUrl,
                                   checkBlobExists(frame[p].loggedJob.storageName)))
       ELSE Respond(p, StatusRequest(frame[p].jobId), 500,
                    [error |-> "Server error checking job status"])
    /\ log' = IF answered /\ checkBlobExists(frame[p].loggedJob.storageName)
              THEN updateLoggedJob(log, frame[p].jobId, [status |-> "completed"])
              ELSE log
    /\ UNCHANGED <<lookup, ui, env, queue, blobs, posted, issued, started, clientJobs, now>>

\* Lines 128-145: checkBlobExists settles.  answered = FALSE is a failure of
\* the storage call other than 404, which checkBlobExists rethrows.
StatusBlobReturns(p, answered) ==
    /\ pc[p] = "statusBlob"
    /\ Quiet
    /\ IF answered
       THEN Respond(p, StatusRequest(frame[p].jobId), 200,
                    StatusResponse(frame[p].loggedJob, frame[p].storageUrl,
                                   checkBlobExists(frame[p].loggedJob.storageName)))
       ELSE Respond(p, StatusRequest(frame[p].jobId), 500,
                    [error |-> "Server error checking job status"])
    /\ UNCHANGED <<lookup, ui, env, queue, log, blobs, posted, issued, started, clientJobs, now>>

----------------------------------------------------------------------------
(* GET /api/check-result/:jobId *)

ResultRequest(jobId) == [route |-> "result", jobId |-> jobId]

\* Mutant: the update of the log is skipped.
ShouldComplete_Never(lj) == FALSE

\* Mutant: the stored status is not tested before the update.
ShouldComplete_Always(lj) == TRUE

\* Mutant: every record not yet completed is updated, error records too.
ShouldComplete_AnyStatus(lj) == lj.status # "completed"

ShouldComplete(lj) == lj.status = "processing"

\* Lines 168-178, up to the await of checkBlobExists
CheckResult(p, jobId) ==
    /\ jobId \in KnownIds
    /\ Begin(p)
    /\ IF getLoggedJob(jobId) = Undefined
       THEN Respond(p, ResultRequest(jobId), 404, [error |-> "Job not found"])
       ELSE Await(p, "resultBlob", [jobId |-> jobId, loggedJob |-> getLoggedJob(jobId)])
    /\ UNCHANGED <<lookup, ui, env, queue, log, blobs, posted, issued, clientJobs, now>>

\* Lines 178-210: checkBlobExists settles, then updateLoggedJob,
\* generateSasUrl and the response.
ResultBlobReturns(p, answered) ==
    /\ pc[p] = "resultBlob"
    /\ Quiet
    /\ IF ~answered
       THEN /\ Respond(p, ResultRequest(frame[p].jobId), 500,
                       [error |-> "Server error checking result"])
            /\ UNCHANGED <<log, now>>
       ELSE IF ~checkBlobExists(frame[p].loggedJob.storageName)
       THEN /\ Respond(p, ResultRequest(frame[p].jobId), 200,
                       [jobId   |-> frame[p].jobId,
                        status  |-> "processing",
                        message |-> "Result is not available yet"])
            /\ UNCHANGED <<log, now>>
       ELSE \E date \in Dates :
            /\ now' = date
            /\ log' = IF ShouldComplete(frame[p].loggedJob)
                      THEN updateLoggedJob(log, frame[p].jobId,
                                           [status |-> "completed", completedAt |-> date])
                      ELSE log
            /\ IF sasConfigured
               THEN Respond(p, ResultRequest(frame[p].jobId), 200,
                            [jobId      |-> frame[p].jobId,
                             status     |-> "completed",
                             storageUrl |-> generateSasUrl(frame[p].loggedJob.storageName, date),
                             message    |-> "Result is available"])
               ELSE Respond(p, ResultRequest(frame[p].jobId), 500,
                            [error |-> "Server error checking result"])
    /\ UNCHANGED <<lookup, ui, env, queue, blobs, posted, issued, started, clientJobs>>

----------------------------------------------------------------------------
(* Environment *)

\* The predictor uploads the structure of a job it was sent.
BlobUploaded(jobId) ==
    /\ Quiet
    /\ jobId \in posted
    /\ StorageName(jobId) \notin blobs
    /\ blobs' = blobs \cup {StorageName(jobId)}
    /\ sent' = NoResponse
    /\ UNCHANGED <<lookup, ui, env, queue, log, posted, issued, started, clientJobs, now, pc, frame>>

\* The server process ends (a crash, a kill or a deployment) and is started
\* again, possibly with other settings: the handlers in flight are gone with
\* their local variables, the two files and the container are as they were.
\* A restart counts as one of the MaxRequests events of a run.
Restart(settings) ==
    /\ started < MaxRequests
    /\ started' = started + 1
    /\ env' = settings
    /\ pc' = [p \in Procs |-> "idle"]
    /\ frame' = [p \in Procs |-> Undefined]
    /\ sent' = NoResponse
    /\ UNCHANGED <<lookup, ui, queue, log, blobs, posted, issued, clientJobs, now>>

----------------------------------------------------------------------------
(* Specifications *)

SubmitSteps(p) ==
    \/ \E ok \in BOOLEAN : SubmitPostReturns(p, ok)
    \/ SubmitAddToLog(p)
    \/ SubmitRemoveFromQueue(p)
    \/ SubmitCatch(p)

Next ==
    \/ \E p \in Procs : \E sequence \in Bodies : SubmitSequence(p, sequence)
    \/ \E p \in Procs : SubmitSteps(p)
    \/ \E p \in Procs : \E jobId \in {0} \cup AllIds : GetJobStatus(p, jobId)
    \/ \E p \in Procs : \E answered \in BOOLEAN : StatusBlobReturns(p, answered)
    \/ \E p \in Procs : \E jobId \in {0} \cup AllIds : CheckResult(p, jobId)
    \/ \E p \in Procs : \E answered \in BOOLEAN : ResultBlobReturns(p, answered)
    \/ \E jobId \in AllIds : BlobUploaded(jobId)

Spec == Init /\ [][Next]_vars

\* The server with restarts.
NextR ==
    \/ Next
    \/ \E settings \in Envs : Restart(settings)

SpecR == Init /\ [][NextR]_vars

\* The browser alone, with every answer the API and storage can give.
NextC ==
    \/ \E jobId \in TrackedIds : \E ok \in BOOLEAN : HandleSubmit(jobId, ok)
    \/ \E jobId \in TrackedIds : HandleCheckStatus(jobId)
    \/ TogglePolling
    \/ \E id \in 1..MaxTimers : Tick(id)
    \/ \E c \in Checks : \E answer \in StatusAnswers : StatusReturns(c, answer)
    \/ \E c \in Checks : \E ok \in BOOLEAN : FetchReturns(c, ok)
    \/ \E c \in Checks : \E ok \in BOOLEAN : TextReturns(c, ok)
    \/ Unmount

\* The server's settings play no part in it.
InitC ==
    /\ Init
    /\ env = [accountKey |-> TRUE, containerName |-> TRUE, endpoint |-> TRUE]

SpecC == InitC /\ [][NextC]_vars

\* The two storage adapters alone, asked about the objects of a container.
NextS ==
    \/ \E adapter \in {"azure", "s3"} : \E jobId \in AllIds : \E fault \in Faults :
          Exists(adapter, jobId, fault)
    \/ \E jobId \in AllIds : Stored(jobId)

SpecS == InitC /\ [][NextS]_vars

\* One submission to a freshly started server, its sequence drawn from all
\* the sequences of up to MaxLen characters.
SubmitFirst(p, sequence) ==
    /\ started = 0
    /\ SubmitSequence(p, sequence)

NextV ==
    \/ \E p \in Procs : \E sequence \in Sequences : SubmitFirst(p, sequence)
    \/ \E p \in Procs : SubmitSteps(p)

SpecV == Init /\ [][NextV]_vars

----------------------------------------------------------------------------
(* Properties *)

Has(content, jobId) == \E i \in 1..Len(content) : content[i].jobId = jobId

InQueue(jobId) == Has(queue, jobId)

InLog(jobId) == Has(log, jobId)

LogStatus(jobId) == IF InLog(jobId) THEN getLoggedJob(jobId).status ELSE "absent"

LogHasError(jobId) == LogStatus(jobId) = "error"

SubmitAccepted == sent.route = "submit" /\ sent.code = 200

\* C1: when a valid submission is answered with 200, its jobId is in exactly
\* one of the queue and the log, whether the predictor call succeeded or not.
C1_ExactlyOneOfQueueAndLog ==
    SubmitAccepted => (InQueue(sent.body.jobId) # InLog(sent.body.jobId))

\* C2: in no state in which a request can run is a jobId both in the queue
\* and in the log.
C2_QueueAndLogDisjoint ==
    Quiet => \A jobId \in AllIds : ~(InQueue(jobId) /\ InLog(jobId))

\* C3: a job-status response for a job whose dispatch failed (the log holds
\* its record with status error) is a 200 whose status is error.
C3_DispatchErrorSurfaced ==
    (sent.route = "status" /\ LogHasError(sent.jobId))
        => (sent.code = 200 /\ sent.body.status = "error")

\* Every character of the sequence is outside the alphabet as written.
AllOutsideAlphabet(sequence) ==
    \A i \in 1..Len(sequence) : sequence[i] \notin validAminoAcids

\* Every character of the sequence is outside the alphabet once upper-cased.
AllOutsideAlphabetAnyCase(sequence) ==
    \A i \in 1..Len(sequence) : toUpperCase(sequence[i]) \notin validAminoAcids

NoJobCreated == queue = <<>> /\ log = <<>> /\ posted = {} /\ issued = 0

\* C4 as stated: a sequence all of whose characters are outside
\* ACDEFGHIKLMNPQRSTVWY is answered 400, and no job is created.
C4_AllOutsideRejected ==
    (sent.route = "submit" /\ AllOutsideAlphabet(sent.sequence))
        => (sent.code = 400 /\ NoJobCreated)

\* C4 as amended: a sequence all of whose characters, once upper-cased, are
\* outside the alphabet is answered 400 by the step that takes the request
\* up; the queue and the log gain no record, no id is issued and the
\* predictor is not called.
C4_AllOutsideAnyCaseRejected ==
    [][(sent'.route = "submit" /\ AllOutsideAlphabetAnyCase(sent'.sequence))
        => /\ sent'.code = 400
           /\ started' = started + 1
           /\ queue' = queue /\ log' = log /\ posted' = posted /\ issued' = issued
           /\ NoJobCreated']_vars

C4_Witness ==
    /\ sent.route = "submit"
    /\ sent.sequence # <<>>
    /\ AllOutsideAlphabetAnyCase(sent.sequence)
    /\ sent.code = 400

OnlyAminoAcidLetters(sequence) ==
    /\ sequence # <<>>
    /\ \A i \in 1..Len(sequence) : sequence[i] \in validAminoAcids

\* C5: on a server whose storage credentials are set, a sequence of valid
\* amino-acid letters shorter than 10 or longer than 1000 is answered 400 and
\* enters neither the queue nor the log.
C5_BadLengthRejected ==
    (/\ sasConfigured
     /\ sent.route = "submit"
     /\ OnlyAminoAcidLetters(sent.sequence)
     /\ \/ Len(sent.sequence) < MinSequenceLength
        \/ Len(sent.sequence) > MaxSequenceLength)
        => (sent.code = 400 /\ queue = <<>> /\ log = <<>>)

\* C6: the step that leaves the catch block (the submission is in the queue
\* and the predictor call has failed) answers 200 with the jobId and the
\* storageUrl, and leaves in the log a record of that job with status error
\* and a non-empty error message.
C6_DispatchFailureAnswered ==
    [][\A p \in Procs :
        (pc[p] = "catch" /\ pc'[p] # "catch")
            => /\ InQueue(frame[p].jobData.jobId)
               /\ sent'.route = "submit"
               /\ sent'.code = 200
               /\ sent'.body.jobId = frame[p].jobData.jobId
               /\ sent'.body.storageUrl = frame[p].jobData.storageUrl
               /\ Has(log', frame[p].jobData.jobId)
               /\ Find(log', frame[p].jobData.jobId).status = "error"
               /\ "error" \in DOMAIN Find(log', frame[p].jobData.jobId)
               /\ Find(log', frame[p].jobData.jobId).error # ""]_vars

C6_Witness ==
    /\ SubmitAccepted
    /\ LogHasError(sent.body.jobId)
    /\ sent.body.jobId \in posted

\* C7: the step that completes a submission whose predictor call succeeded
\* answers 200; the job is then in the log with status processing and a
\* processedAt timestamp, and no longer in the queue.
C7_DispatchSuccessLogged ==
    [][\A p \in Procs :
        (pc[p] = "removeFromQueue" /\ pc'[p] # "removeFromQueue")
            => /\ sent'.route = "submit"
               /\ sent'.code = 200
               /\ sent'.body.jobId = frame[p].jobData.jobId
               /\ Has(log', frame[p].jobData.jobId)
               /\ Find(log', frame[p].jobData.jobId).status = "processing"
               /\ "processedAt" \in DOMAIN Find(log', frame[p].jobData.jobId)
               /\ ~Has(queue', frame[p].jobData.jobId)]_vars

C7_Witness ==
    /\ SubmitAccepted
    /\ LogStatus(sent.body.jobId) = "processing"
    /\ ~InQueue(sent.body.jobId)

\* C8: a stored record's status only moves forward.  A queue record is
\* queued; a log record starts as processing or error and is never removed;
\* processing may become completed; error and completed never change; and a
\* job that has left the queue does not return to it.
C8_StatusMovesForward ==
    [][\A jobId \in AllIds :
        /\ InQueue(jobId) => getQueuedJob(jobId).status = "queued"
        /\ (InLog(jobId) /\ ~InQueue(jobId)) => ~InQueue(jobId)'
        /\ InLog(jobId) => InLog(jobId)'
        /\ (~InLog(jobId) /\ InLog(jobId)') => LogStatus(jobId)' \in {"processing", "error"}
        /\ LogStatus(jobId) = "processing" => LogStatus(jobId)' \in {"processing", "completed"}
        /\ LogStatus(jobId) \in {"error", "completed"} => LogStatus(jobId)' = LogStatus(jobId)
      ]_vars

C8_Witness ==
    \E jobId, other \in AllIds :
        /\ LogStatus(jobId) = "completed"
        /\ LogStatus(other) = "error"
        /\ StorageName(other) \in blobs

\* C9: once completedAt of a logged job is set it is never written again,
\* however many check-result calls run and however they overlap, and every
\* check-result call that finds the blob returns a storage URL.
C9_CompletedAtWrittenOnce ==
    [][/\ \A jobId \in AllIds :
            (InLog(jobId) /\ "completedAt" \in DOMAIN getLoggedJob(jobId))
                => getLoggedJob(jobId)'.completedAt = getLoggedJob(jobId).completedAt
       /\ (sent'.route = "result" /\ sent'.code = 200 /\ sent'.body.status = "completed")
                => "storageUrl" \in DOMAIN sent'.body
      ]_vars

\* C10: every jobId a client received from a submission is still in the
\* queue or the log (job-status finds it), and neither file holds two
\* records of one jobId, whatever submissions ran at the same time.
C10_NoSubmissionLost ==
    /\ \A jobId \in clientJobs : InQueue(jobId) \/ InLog(jobId)
    /\ \A i, k \in 1..Len(log) : log[i].jobId = log[k].jobId => i = k
    /\ \A i, k \in 1..Len(queue) : queue[i].jobId = queue[k].jobId => i = k

\* Two submissions overlapped (the later one was logged first) and both
\* have been answered.
C10_Witness ==
    /\ Cardinality(clientJobs) >= 2
    /\ Len(log) >= 2
    /\ log[1].jobId > log[2].jobId
    /\ log[1].status = "processing" /\ log[2].status = "processing"

\* The values of JobData.status.
JobStatuses == {"submitted", "queued", "processing", "completed", "error"}

\* C11: a job-status response is 404 with error "Job not found" exactly when
\* the jobId is in neither the queue nor the log; a job that is in one of
\* them is never answered 404, and when no storage call fails it is answered
\* 200 with one of the statuses of the lifecycle.
C11_NotFoundIffAbsent ==
    sent.route = "status" =>
        /\ (sent.code = 404) <=> (~InQueue(sent.jobId) /\ ~InLog(sent.jobId))
        /\ sent.code = 404 => sent.body = [error |-> "Job not found"]
        /\ sent.code \in {200, 404, 500}
        /\ sent.code = 200 => sent.body.status \in JobStatuses

\* A logged job whose blob does not exist yet is reported as processing.
C11_Witness ==
    /\ sent.route = "status"
    /\ sent.code = 200
    /\ sent.body.status = "processing"
    /\ InLog(sent.jobId)
    /\ StorageName(sent.jobId) \notin blobs

\* C12: a check-result response is 404 exactly when the log has no record of
\* the jobId, also when the queue has one; the 404 is sent by the step that
\* takes the request up, which starts no storage call and leaves the queue,
\* the log and the clock as they were.
C12_ResultLooksInLogOnly ==
    [][sent'.route = "result" =>
        /\ (sent'.code = 404) <=> ~Has(log', sent'.jobId)
        /\ sent'.code = 404 =>
              /\ sent'.body = [error |-> "Job not found"]
              /\ started' = started + 1
              /\ \A p \in Procs : pc'[p] \in {"statusBlob", "resultBlob"} => pc'[p] = pc[p]
              /\ queue' = queue /\ log' = log /\ now' = now]_vars

C12_Witness ==
    /\ sent.route = "result"
    /\ sent.code = 404
    /\ InQueue(sent.jobId)
    /\ ~InLog(sent.jobId)

\* C13: a 200 job-status response for a job that is in the log and not in the
\* queue, with stored status processing or completed, has status completed
\* if the job's blob exists and processing if not, and carries a storage URL
\* of that blob that expires later than the stored one.
C13_StatusFollowsBlob ==
    (/\ sent.route = "status"
     /\ sent.code = 200
     /\ ~InQueue(sent.jobId)
     /\ LogStatus(sent.jobId) \in {"processing", "completed"})
        => /\ sent.body.status =
                 IF StorageName(sent.jobId) \in blobs THEN "completed" ELSE "processing"
           /\ sent.body.uploaded = (StorageName(sent.jobId) \in blobs)
           /\ sent.body.storageUrl.blobName = StorageName(sent.jobId)
           /\ sent.body.storageUrl.expiresOn > getLoggedJob(sent.jobId).storageUrl.expiresOn

\* The stored status is processing and the response says completed.
C13_Witness ==
    /\ sent.route = "status"
    /\ sent.code = 200
    /\ ~InQueue(sent.jobId)
    /\ LogStatus(sent.jobId) = "processing"
    /\ sent.body.status = "completed"

\* The status that a queue, a log and a container determine for a jobId.
VisibleStatus(queueContent, logContent, container, jobId) ==
    IF Has(queueContent, jobId) THEN Find(queueContent, jobId).status
    ELSE IF ~Has(logContent, jobId) THEN "absent"
    ELSE IF Find(logContent, jobId).status \in {"processing", "completed"}
    THEN IF StorageName(jobId) \in container THEN "completed" ELSE "processing"
    ELSE Find(logContent, jobId).status

StatusAnswered == sent.route = "status" /\ sent.code # 500

\* C14: a job-status call whose storage calls do not fail leaves the queue,
\* the log and the container as it found them, and its answer is the one
\* they determine; two job-status answers for the same id that follow each
\* other with no step in between have the same status code and the same
\* status.
C14_StatusPollingIdempotent ==
    [][StatusAnswered' =>
        /\ queue' = queue /\ log' = log /\ blobs' = blobs
        /\ (sent'.code = 404) <=> (VisibleStatus(queue', log', blobs', sent'.jobId) = "absent")
        /\ sent'.code = 200 => sent'.body.status = VisibleStatus(queue', log', blobs', sent'.jobId)
        /\ (StatusAnswered /\ sent.jobId = sent'.jobId) =>
              /\ sent'.code = sent.code
              /\ sent'.code = 200 => sent'.body.status = sent.body.status]_vars

\* One call for a completed job has been answered while a second call for
\* the same job awaits storage.
C14_Witness ==
    /\ StatusAnswered
    /\ sent.code = 200
    /\ sent.body.status = "completed"
    /\ \E p \in Procs : pc[p] = "statusBlob" /\ frame[p].jobId = sent.jobId

StoredUrls ==
    {queue[i].storageUrl : i \in 1..Len(queue)} \cup {log[i].storageUrl : i \in 1..Len(log)}

\* C15: the storageUrl of a 200 response was generated while that request
\* was handled: a submit response carries the URL made at the submission
\* it answers, and a job-status or check-result response carries none of the
\* URLs that an earlier request stored in the queue or the log.
C15_UrlGeneratedInRequest ==
    (sent.code = 200 /\ "storageUrl" \in DOMAIN sent.body) =>
        IF sent.route = "submit"
        THEN sent.body.storageUrl.expiresOn =
                getLoggedJob(sent.body.jobId).submittedAt + SasValidityHours
        ELSE sent.body.storageUrl \notin StoredUrls

\* C16 as stated: after a poll (job-status or check-result) has found the
\* blob of a logged job and reported it as completed, the status stored in
\* the log is no longer processing: the poll has flipped it to completed.
C16_PollCompletes ==
    (/\ sent.route \in {"status", "result"}
     /\ sent.code = 200
     /\ sent.body.status = "completed"
     /\ StorageName(sent.jobId) \in blobs)
        => LogStatus(sent.jobId) # "processing"

\* C16 as amended: a check-result call that finds the blob of a job stored
\* as processing leaves it stored as completed; a stored status becomes
\* completed only in such a step, from processing and with the blob in the
\* container; a job-status call does not change the log.
C16_OnlyCheckResultCompletes ==
    [][/\ \A p \in Procs : \A jobId \in AllIds :
            (/\ pc[p] = "resultBlob" /\ pc'[p] = "idle"
             /\ frame[p].jobId = jobId
             /\ sent'.code = 200
             /\ StorageName(jobId) \in blobs
             /\ LogStatus(jobId) = "processing")
                => LogStatus(jobId)' = "completed"
       /\ \A jobId \in AllIds :
            (LogStatus(jobId) # "completed" /\ LogStatus(jobId)' = "completed")
                => /\ sent'.route = "result"
                   /\ sent'.jobId = jobId
                   /\ LogStatus(jobId) = "processing"
                   /\ StorageName(jobId) \in blobs
       /\ sent'.route = "status" => log' = log
      ]_vars

\* A check-result call has found the blob and stored completed.
C16_Witness ==
    /\ sent.route = "result"
    /\ sent.code = 200
    /\ sent.body.status = "completed"
    /\ LogStatus(sent.jobId) = "completed"
    /\ "completedAt" \in DOMAIN getLoggedJob(sent.jobId)

StorageFailureAnswered == sent.route \in {"status", "result"} /\ sent.code = 500

\* C17 as stated: the step in which job-status or check-result answers 500
\* leaves the queue and the log unchanged.
C17_StorageFailureLeavesStore ==
    [][StorageFailureAnswered' => (queue' = queue /\ log' = log)]_vars

\* C17 as amended: the step in which job-status or check-result answers 500
\* ends the handler and starts no further storage call; it leaves the queue
\* unchanged, and the log too, except where check-result found the blob of a
\* job it had read as processing and then failed to generate the URL: there
\* status completed and completedAt have been written to the job's record,
\* which was stored as processing or (completed by an overlapping call) as
\* completed, and the other records are unchanged.
C17_StorageFailureAnswered500 ==
    [][StorageFailureAnswered' =>
        /\ \A p \in Procs : pc'[p] \in {"statusBlob", "resultBlob"} => pc'[p] = pc[p]
        /\ \E p \in Procs : pc[p] \in {"idle", "statusBlob", "resultBlob"} /\ pc'[p] = "idle"
                                /\ frame'[p] = Undefined
        /\ queue' = queue
        /\ \/ log' = log
           \/ /\ sent'.route = "result"
              /\ ~sasConfigured
              /\ StorageName(sent'.jobId) \in blobs
              /\ Find(log, sent'.jobId).status \in {"processing", "completed"}
              /\ Find(log', sent'.jobId) =
                    Spread(Find(log, sent'.jobId),
                           [status |-> "completed", completedAt |-> now'])
              /\ Len(log') = Len(log)
              /\ Filter(log', sent'.jobId) = Filter(log, sent'.jobId)]_vars

\* check-result has stored completed in this step and answered 500.
C17_Witness ==
    /\ sent.route = "result"
    /\ sent.code = 500
    /\ ~sasConfigured
    /\ LogStatus(sent.jobId) = "completed"
    /\ getLoggedJob(sent.jobId).completedAt = now

\* A handler sends a request to the predictor in the steps that take it to
\* the await of axios.post.
CallsPredictor(p) == pc'[p] = "awaitPost" /\ pc[p] # "awaitPost"

\* C18: a request goes to the predictor only from a handler that has just
\* taken up a submission, for the jobId created in that step, which was
\* never sent before and is in neither file before the step; no other step
\* (the catch block, job-status, check-result, a restart) sends one.
C18_PredictorCalledOnce ==
    [][/\ \A p \in Procs : \A jobId \in AllIds :
            (CallsPredictor(p) /\ frame'[p].jobData.jobId = jobId)
                => /\ pc[p] = "idle"
                   /\ jobId \notin posted
                   /\ ~InQueue(jobId) /\ ~InLog(jobId)
                   /\ issued' = jobId /\ issued = jobId - 1
                   /\ posted' = posted \cup {jobId}
       /\ (\A p \in Procs : ~CallsPredictor(p)) => posted' = posted
      ]_vars

\* A job whose predictor call failed has been polled.
C18_Witness ==
    /\ sent.route \in {"status", "result"}
    /\ sent.jobId \in posted
    /\ LogHasError(sent.jobId)

StoredRecords ==
    {queue[i] : i \in 1..Len(queue)} \cup {log[i] : i \in 1..Len(log)}

\* C19: every record of the queue and of the log has an error field exactly
\* when its status is error, and the message of an error record is not
\* empty.
C19_ErrorFieldIffErrorStatus ==
    \A jd \in StoredRecords :
        /\ ("error" \in DOMAIN jd) <=> (jd.status = "error")
        /\ jd.status = "error" => jd.error # ""

\* The log holds an error record, and a record that check-result completed.
C19_Witness ==
    \E i, k \in 1..Len(log) :
        /\ log[i].status = "error"
        /\ log[k].status = "completed"

\* C20: a periodic status check is issued only while the component is
\* mounted, and never for a job for which a status check has come back
\* completed or error and been dealt with since the user last switched
\* polling on.
C20_PollingCancelled ==
    ui.tick # 0 => (ui.mounted /\ ui.tick \notin ui.seen)

\* C21: an existence check of either adapter gives true when the provider's
\* lookup succeeds, false when the provider answers not found (HTTP 404),
\* and throws on every other failure of the provider.
C21_ExistsFalseOnlyOnNotFound ==
    lookup.adapter # "none" =>
        lookup.result =
            CASE HttpStatus(lookup.name, lookup.fault) = 200 -> "true"
              [] HttpStatus(lookup.name, lookup.fault) = 404 -> "false"
              [] OTHER -> "throw"

\* The S3 adapter has been refused and has thrown.
C21_Witness ==
    /\ lookup.adapter = "s3"
    /\ lookup.fault = "forbidden"
    /\ lookup.name \in blobs
    /\ lookup.result = "throw"

\* C22: a started process fails no request for a missing setting: it answers
\* nothing with 500 while the account key is unset, and records no job as
\* failed because the endpoint or the container name is unset.
C22_NoRequestFailsForMissingSetting ==
    /\ sent.code = 500 => sasConfigured
    /\ \A jobId \in AllIds : LogHasError(jobId) => DispatchIssued

\* C23: the shared validator accepts a sequence exactly when it is non-empty,
\* all its characters are in ACDEFGHIKLMNPQRSTVWY, and its length is between
\* 10 and 1000.
C23_ValidatorIsLengthAndAlphabetRule ==
    sent.route = "submit" =>
        (isValidSequence(sent.sequence) <=>
            /\ OnlyAminoAcidLetters(sent.sequence)
            /\ Len(sent.sequence) >= MinSequenceLength
            /\ Len(sent.sequence) <= MaxSequenceLength)

\* C24: a job that is in the queue or in the log is in the queue or in the
\* log after every step, a restart of the process between two store
\* operations included; a step removes a job from the queue only when the
\* log already holds it.
C24_NoJobLost ==
    [][\A jobId \in AllIds :
        /\ (InQueue(jobId) \/ InLog(jobId)) => (Has(queue', jobId) \/ Has(log', jobId))
        /\ (InQueue(jobId) /\ ~Has(queue', jobId)) => InLog(jobId)]_vars

\* The process went down between the log write and the queue removal of a
\* dispatched job: no handler is running and both files hold the job.
C24_Witness ==
    \E jobId \in AllIds :
        /\ InQueue(jobId)
        /\ LogStatus(jobId) = "processing"
        /\ \A p \in Procs : pc[p] = "idle"

\* C25: no step of a job-status request, whether it takes the request up,
\* answers it with 200, 404 or 500, or reports completed for a job stored
\* as processing, changes the queue or the log.
C25_StatusNeverWrites ==
    [][(\/ sent'.route = "status"
        \/ \E p \in Procs : pc[p] # "statusBlob" /\ pc'[p] = "statusBlob")
            => (queue' = queue /\ log' = log)]_vars

\* Job-status has reported completed with a fresh URL, and the log still
\* holds the job as processing, with no completion time.
C25_Witness ==
    /\ sent.route = "status"
    /\ sent.code = 200
    /\ sent.body.status = "completed"
    /\ sent.body.uploaded
    /\ LogStatus(sent.jobId) = "processing"
    /\ "completedAt" \notin DOMAIN getLoggedJob(sent.jobId)

\* C26: a check-result answer for a logged job is completed if the job's
\* blob exists and processing otherwise, whatever the stored status is, and
\* the step that answers changes the log only where the stored status is
\* processing and the blob exists.
C26_ResultFollowsBlobAndWritesOnce ==
    [][sent'.route = "result" =>
        /\ sent'.code = 200 =>
              sent'.body.status =
                  IF StorageName(sent'.jobId) \in blobs THEN "completed" ELSE "processing"
        /\ log' # log =>
              /\ Find(log, sent'.jobId).status = "processing"
              /\ StorageName(sent'.jobId) \in blobs]_vars

\* C27: a 200 job-status response whose status is completed carries
\* uploaded = true and a storageUrl of the job's blob, so that the client
\* fetches the structure from the URL and not from /api/check-result.
C27_CompletedCarriesUrl ==
    (sent.route = "status" /\ sent.code = 200 /\ sent.body.status = "completed")
        => /\ UsesStorageUrl(sent.body)
           /\ sent.body.storageUrl.blobName = StorageName(sent.jobId)

\* Job-status has answered completed for a job that check-result had
\* already stored as completed.
C27_Witness ==
    /\ sent.route = "status"
    /\ sent.code = 200
    /\ sent.body.status = "completed"
    /\ LogStatus(sent.jobId) = "completed"
    /\ UsesStorageUrl(sent.body)

\* C28: the browser has at most one live interval timer, that timer is the
\* one held in pollInterval and polls the tracked job, and there is none
\* while polling is off or after the component has unmounted.
C28_AtMostOneInterval ==
    /\ Cardinality(ui.timers) <= 1
    /\ \A t \in ui.timers : t.id = ui.pollInterval /\ t.jobId = ui.jobId
    /\ (~ui.isPolling \/ ~ui.mounted) => ui.timers = {}

\* The last interval the run can create is the only one live: those created
\* before it have been cleared.
C28_Witness ==
    /\ ui.nextTimer = MaxTimers
    /\ ui.isPolling
    /\ \E t \in ui.timers : t.id = MaxTimers
    /\ Cardinality(ui.timers) = 1

\* C29: the structure shown is that of the tracked job, and a status check
\* started for another job than the tracked one neither sets the structure
\* nor switches polling off when it ends.
C29_StaleCheckIgnored ==
    [][/\ ui'.structure \in {0, ui'.jobId}
       /\ \A c \in Checks :
            (/\ ui.checks[c].pc # "idle"
             /\ ui'.checks[c].pc = "idle"
             /\ ui.checks[c].jobId # ui.jobId)
                => (ui'.structure = ui.structure /\ ui'.isPolling = ui.isPolling)]_vars

\* A status check ends in the catch block: getJobStatus, the fetch of the
\* structure file or the reading of its text has failed.
CheckFails ==
    \E c \in Checks :
        /\ ui.checks[c].pc # "idle"
        /\ ui'.checks[c].pc = "idle"
        /\ \/ StatusReturns(c, [ok |-> FALSE])
           \/ FetchReturns(c, FALSE)
           \/ TextReturns(c, FALSE)

\* A status check ends with status error, or with status completed and the
\* structure read.
CheckConcludes ==
    \E c \in Checks :
        /\ ui.checks[c].pc # "idle"
        /\ ui'.checks[c].pc = "idle"
        /\ \/ StatusReturns(c, [ok |-> TRUE, status |-> "error", uploaded |-> FALSE])
           \/ TextReturns(c, TRUE)

\* C30: a status check that fails shows the error and leaves polling and
\* the interval as they were, with a check slot free for the next tick;
\* polling is switched off only by a check that ends with status error or
\* completed or by the toggle, and the interval goes away only by one of
\* these or by unmounting.
C30_FailureKeepsPolling ==
    [][/\ CheckFails =>
            /\ ui.mounted => ui'.error
            /\ ui'.isPolling = ui.isPolling
            /\ ui'.timers = ui.timers
            /\ ui'.jobId = ui.jobId
            /\ FreeCheck(ui')
       /\ (ui.isPolling /\ ~ui'.isPolling) => (CheckConcludes \/ TogglePolling)
       /\ (ui.timers # {} /\ ui'.timers = {})
            => (CheckConcludes \/ TogglePolling \/ Unmount)]_vars

\* After the fetch of a completed job's structure failed, the error is on
\* display, polling is on, and the interval has issued another check.
C30_Witness ==
    /\ ui.error
    /\ ui.isPolling
    /\ ui.tick # 0
    /\ ui.tick \in ui.seen
    /\ \E t \in ui.timers : t.jobId = ui.tick

====
